---- MODULE Spec2Model ----
(***************************************************************************)
(* Model of gmach42/p05:                                                   *)
(*   ex1/data_stream.py    StreamProcessor and its DataStream kinds        *)
(*   ex2/nexus_pipeline.py ProcessingPipeline adapters and NexusManager    *)
(*                                                                         *)
(* Python values are tagged records: field t holds the Python type, and    *)
(* each type keeps its payload under a field of its own.                   *)
(***************************************************************************)
EXTENDS Integers, Sequences, FiniteSets, TLC

----------------------------------------------------------------------------
(* Bounds *)

MaxBatchLen == 2
MaxCalls == 2
MaxItems == 3
MaxStages == 4
MaxCount == 2
MaxPipelines == 2
MaxTotal == 4

----------------------------------------------------------------------------
(* Python values *)

None == [t |-> "None"]
PyInt(n) == [t |-> "int", v |-> n]
PyBool(x) == [t |-> "bool", b |-> x]
PyFloat(n) == [t |-> "float", tenths |-> n]
PyStr(cs) == [t |-> "str", s |-> cs]
PyDict(f) == [t |-> "dict", d |-> f]
PyList(xs) == [t |-> "list", l |-> xs]
PyTuple(xs) == [t |-> "tuple", tl |-> xs]

\* isinstance(x, dict) / list / str / int: bool is a subclass of int
IsDict(x) == x.t = "dict"
IsList(x) == x.t = "list"
IsStr(x) == x.t = "str"
IsInt(x) == x.t \in {"int", "bool"}
IsFloat(x) == x.t = "float"

\* all(isinstance(d, T) for d in xs): vacuously true of an empty list
AllDict(xs) == \A i \in 1..Len(xs) : IsDict(xs[i])
\* any(...) in place of all(...)
SomeInt(xs) == \E i \in 1..Len(xs) : IsInt(xs[i])

AllInt(xs) == \A i \in 1..Len(xs) : IsInt(xs[i])
AllStr(xs) == \A i \in 1..Len(xs) : IsStr(xs[i])

\* f"{n:03d}": the decimal digits of n, zero-padded to width 3
Fmt03d(n) ==
    IF n < 1000 THEN <<n \div 100, (n \div 10) % 10, n % 10>>
    ELSE <<n \div 1000, (n \div 100) % 10, (n \div 10) % 10, n % 10>>

----------------------------------------------------------------------------
(* ex1/data_stream.py *)

VARIABLES sensor_streams, transaction_streams, event_streams,
          submitted, ret

ds_vars == <<sensor_streams, transaction_streams, event_streams,
             submitted, ret>>

\* SensorStream.__init__
SensorStream(stream_id) ==
    [stream_id |-> stream_id, data_type |-> "Environmental Data",
     processed_data |-> <<>>, registered_temps |-> <<>>]

\* TransactionStream.__init__
TransactionStream(stream_id) ==
    [stream_id |-> stream_id, data_type |-> "Financial Data",
     processed_data |-> <<>>]

\* EventStream.__init__
EventStream(stream_id) ==
    [stream_id |-> stream_id, data_type |-> "System Events",
     processed_data |-> <<>>, errors |-> <<>>]

\* the loop of SensorStream.process_batch over the first n readings
RECURSIVE SensorIngest(_, _, _)
SensorIngest(stream, items, n) ==
    IF n = 0 THEN stream
    ELSE LET s == SensorIngest(stream, items, n - 1)
             data == items[n]
         IN [s EXCEPT
               !.registered_temps =
                   IF "temp" \in DOMAIN data.d THEN Append(@, data.d.temp)
                   ELSE @,
               !.processed_data = Append(@, data)]

\* SensorStream.process_batch: a single dict is wrapped in a list
SensorProcessBatch(stream, data_batch) ==
    LET items == IF IsDict(data_batch) THEN <<data_batch>> ELSE data_batch.l
    IN SensorIngest(stream, items, Len(items))

\* TransactionStream.process_batch
TransactionProcessBatch(stream, data_batch) ==
    [stream EXCEPT !.processed_data = @ \o data_batch.l]

\* str.lower() on the characters the model's texts are made of
LowerChar(c) ==
    CASE c = "E" -> "e"
      [] c = "R" -> "r"
      [] c = "O" -> "o"
      [] c = "L" -> "l"
      [] c = "G" -> "g"
      [] c = "I" -> "i"
      [] OTHER -> c

Lower(cs) == [i \in 1..Len(cs) |-> LowerChar(cs[i])]

\* "error" in text: the five characters occur consecutively
ContainsError(cs) ==
    \E i \in 1..(Len(cs) - 4) :
        SubSeq(cs, i, i + 4) = <<"e", "r", "r", "o", "r">>

\* the loop with the test "error" in data, without lower()
RECURSIVE EventIngestCaseSensitive(_, _, _)
EventIngestCaseSensitive(stream, items, n) ==
    IF n = 0 THEN stream
    ELSE LET s == EventIngestCaseSensitive(stream, items, n - 1)
             data == items[n]
         IN [s EXCEPT
               !.processed_data = Append(@, data),
               !.errors = IF ContainsError(data.s) THEN Append(@, data)
                          ELSE @]

\* the loop of EventStream.process_batch over the first n lines
RECURSIVE EventIngest(_, _, _)
EventIngest(stream, items, n) ==
    IF n = 0 THEN stream
    ELSE LET s == EventIngest(stream, items, n - 1)
             data == items[n]
         IN [s EXCEPT
               !.processed_data = Append(@, data),
               !.errors = IF ContainsError(Lower(data.s)) THEN Append(@, data)
                          ELSE @]

\* EventStream.process_batch
EventProcessBatch(stream, data_batch) ==
    EventIngest(stream, data_batch.l, Len(data_batch.l))

\* the isinstance chain of StreamProcessor.process_any_stream
IsSensorBatch(b) == IsDict(b) \/ (IsList(b) /\ AllDict(b.l))
\* the check widened to isinstance(d, (int, float))
IsTransactionBatchAnyNumber(b) ==
    IsList(b) /\ \A i \in 1..Len(b.l) : IsInt(b.l[i]) \/ IsFloat(b.l[i])

IsTransactionBatch(b) == IsList(b) /\ AllInt(b.l)
IsEventBatch(b) == IsList(b) /\ AllStr(b.l)

Classify(b) ==
    IF IsSensorBatch(b) THEN "Sensor"
    ELSE IF IsTransactionBatch(b) THEN "Transaction"
    ELSE IF IsEventBatch(b) THEN "Event"
    ELSE "Unknown"

\* the stream handed back to the caller, named by its kind and list position
StreamRef(kind, idx) == [t |-> "stream", kind |-> kind, idx |-> idx]

\* inputs ------------------------------------------------------------------

Reading1 == PyDict([temp |-> PyFloat(-50)])
Reading2 == PyDict([humidity |-> PyInt(65), pressure |-> PyInt(1013)])
TextLogin == PyStr(<<"l", "o", "g">>)
TextError == PyStr(<<"E", "r", "r", "O", "R", "!">>)

Elements ==
    {Reading1, Reading2, PyInt(100), PyInt(-2500), PyBool(TRUE), PyFloat(50),
     TextLogin, TextError}

\* the elements that longer lists are built from
MixElements == {Reading1, PyInt(100), PyFloat(50), TextError}

RECURSIVE SeqsUpTo(_, _)
SeqsUpTo(S, n) ==
    IF n = 0 THEN {<<>>}
    ELSE LET shorter == SeqsUpTo(S, n - 1)
         IN shorter \cup {Append(q, x) : q \in shorter, x \in S}

Batches ==
    {PyList(xs) : xs \in SeqsUpTo(MixElements, MaxBatchLen)}
    \cup {PyList(<<x>>) : x \in Elements}
    \cup {PyList(<<Reading1, Reading2>>),
          PyList(<<PyInt(-2500), PyBool(TRUE)>>),
          PyList(<<TextLogin, TextError>>)}
    \cup {Reading1, Reading2, None, PyInt(100), TextLogin,
          PyTuple(<<PyInt(100)>>)}

\* StreamProcessor.__init__
DSInit ==
    /\ sensor_streams = <<>>
    /\ transaction_streams = <<>>
    /\ event_streams = <<>>
    /\ submitted = <<>>
    /\ ret = None

\* StreamProcessor.process_any_stream(data_batch)
ProcessAnyStream(data_batch) ==
    /\ Len(submitted) < MaxCalls
    /\ submitted' = Append(submitted, data_batch)
    /\ IF IsSensorBatch(data_batch)
       THEN LET stream_id == [prefix |-> "SENSOR-",
                              digits |-> Fmt03d(Len(sensor_streams) + 1)]
                stream == SensorStream(stream_id)
            IN /\ sensor_streams' =
                     Append(sensor_streams,
                            SensorProcessBatch(stream, data_batch))
               /\ ret' = StreamRef("Sensor", Len(sensor_streams) + 1)
               /\ UNCHANGED <<transaction_streams, event_streams>>
       ELSE IF IsTransactionBatch(data_batch)
       THEN LET stream_id == [prefix |-> "TRANS-",
                              digits |-> Fmt03d(Len(transaction_streams) + 1)]
                stream == TransactionStream(stream_id)
            IN /\ transaction_streams' =
                     Append(transaction_streams,
                            TransactionProcessBatch(stream, data_batch))
               /\ ret' = StreamRef("Transaction", Len(transaction_streams) + 1)
               /\ UNCHANGED <<sensor_streams, event_streams>>
       ELSE IF IsEventBatch(data_batch)
       THEN LET stream_id == [prefix |-> "EVENT-",
                              digits |-> Fmt03d(Len(event_streams) + 1)]
                stream == EventStream(stream_id)
            IN /\ event_streams' =
                     Append(event_streams,
                            EventProcessBatch(stream, data_batch))
               /\ ret' = StreamRef("Event", Len(event_streams) + 1)
               /\ UNCHANGED <<sensor_streams, transaction_streams>>
       ELSE /\ ret' = None
            /\ UNCHANGED <<sensor_streams, transaction_streams,
                           event_streams>>

Dispatch == \E b \in Batches : ProcessAnyStream(b)

----------------------------------------------------------------------------
(* ex2/nexus_pipeline.py *)

\* Text is a sequence of one-character strings.  JSON text is held lexed:
\* a sequence of tokens, so that json.loads has a grammar to accept or reject.
LBrace == [k |-> "punct", c |-> "{"]
RBrace == [k |-> "punct", c |-> "}"]
Colon == [k |-> "punct", c |-> ":"]
Comma == [k |-> "punct", c |-> ","]
StrTok(cs) == [k |-> "string", s |-> cs]
NumTok(x) == [k |-> "number", n |-> x]
WordTok(cs) == [k |-> "word", w |-> cs]

S_sensor == <<"s", "e", "n", "s", "o", "r">>
S_value == <<"v", "a", "l", "u", "e">>
S_unit == <<"u", "n", "i", "t">>
S_temp == <<"t", "e", "m", "p">>
S_user == <<"u", "s", "e", "r">>
S_action == <<"a", "c", "t", "i", "o", "n">>
S_timestamp == <<"t", "i", "m", "e", "s", "t", "a", "m", "p">>
S_sensor_id == <<"s", "e", "n", "s", "o", "r", "_", "i", "d">>
S_error == <<"e", "r", "r", "o", "r">>

\* a dict is a function from keys (Python values) to Python values
HasKey(x, cs) == PyStr(cs) \in DOMAIN x.d
Get(x, cs) == x.d[PyStr(cs)]

\* the value a JSON scalar token denotes
TokValue(tok) == IF tok.k = "string" THEN PyStr(tok.s) ELSE tok.n

\* the members of a flat JSON object: key : value , key : value ...
IsMembers(inner) ==
    /\ (Len(inner) + 1) % 4 = 0
    /\ \A i \in 1..Len(inner) :
         CASE i % 4 = 1 -> inner[i].k = "string"
           [] i % 4 = 2 -> inner[i] = Colon
           [] i % 4 = 3 -> inner[i].k \in {"string", "number"}
           [] OTHER -> inner[i] = Comma

\* the dict of a member list; a repeated key keeps its last value
ObjectOf(inner) ==
    LET n == (Len(inner) + 1) \div 4
        keyAt(j) == PyStr(inner[4 * (j - 1) + 1].s)
        valAt(j) == TokValue(inner[4 * (j - 1) + 3])
        last(key) == CHOOSE j \in 1..n :
                        /\ keyAt(j) = key
                        /\ \A j2 \in 1..n : keyAt(j2) = key => j2 <= j
    IN [key \in {keyAt(j) : j \in 1..n} |-> valAt(last(key))]

\* json.loads on scalars and flat objects: ok with the value, or
\* JSONDecodeError
JsonLoads(toks) ==
    IF Len(toks) = 1 /\ toks[1].k \in {"string", "number"}
    THEN [ok |-> TRUE, val |-> TokValue(toks[1])]
    ELSE IF Len(toks) >= 2 /\ toks[1] = LBrace /\ toks[Len(toks)] = RBrace
    THEN LET inner == SubSeq(toks, 2, Len(toks) - 1)
         IN IF inner = <<>> THEN [ok |-> TRUE, val |-> PyDict(<<>>)]
            ELSE IF IsMembers(inner)
            THEN [ok |-> TRUE, val |-> PyDict(ObjectOf(inner))]
            ELSE [ok |-> FALSE]
    ELSE [ok |-> FALSE]

\* the decimal digits of a natural number, as characters
DigitChar(n) ==
    CASE n = 0 -> "0" [] n = 1 -> "1" [] n = 2 -> "2" [] n = 3 -> "3"
      [] n = 4 -> "4" [] n = 5 -> "5" [] n = 6 -> "6" [] n = 7 -> "7"
      [] n = 8 -> "8" [] OTHER -> "9"

RECURSIVE NatChars(_)
NatChars(n) ==
    IF n < 10 THEN <<DigitChar(n)>>
    ELSE Append(NatChars(n \div 10), DigitChar(n % 10))

IntChars(n) == IF n < 0 THEN <<"-">> \o NatChars(-n) ELSE NatChars(n)

\* str(x) for the values an adapter meets
StrOf(x) ==
    CASE x.t = "str" -> x.s
      [] x.t = "int" -> IntChars(x.v)
      [] x.t = "float" ->
            (IF x.tenths < 0 THEN <<"-">> ELSE <<>>)
            \o NatChars((IF x.tenths < 0 THEN -x.tenths ELSE x.tenths) \div 10)
            \o <<".">>
            \o <<DigitChar((IF x.tenths < 0 THEN -x.tenths ELSE x.tenths) % 10)>>
      [] x.t = "bool" -> IF x.b THEN <<"T", "r", "u", "e">>
                         ELSE <<"F", "a", "l", "s", "e">>
      [] OTHER -> <<"N", "o", "n", "e">>

\* an f-string: its literal template and the values interpolated into it
FStr(template, args) == [t |-> "str", template |-> template, args |-> args]

\* an exception, by type and message
Exc(type, msg) == [type |-> type, msg |-> msg]

\* the stages an adapter can be given
StageKinds == {"InputStage", "TransformStage", "OutputStage"}

\* InputStage.process raises on None; the other stages never raise
StageRaises(stage, arg) == stage = "InputStage" /\ arg = None

StageCall(i, arg) == [stage |-> i, arg |-> arg]

\* how one call of process ends: the errors it printed, the stages it ran,
\* what it returned, the caller's dict after the call, the count it added
Raised(calls, e, data) ==
    [errors |-> <<e>>, stage_calls |-> calls, ret |-> None,
     data |-> data, inc |-> 0]
Returned(calls, data, inc) ==
    [errors |-> <<>>, stage_calls |-> calls, ret |-> data,
     data |-> data, inc |-> inc]
LoopNeverRan(data) ==
    [errors |-> <<>>, stage_calls |-> <<>>, ret |-> None,
     data |-> data, inc |-> 0]

\* for d in data.get(key, []): an absent key gives no items
IterItemsDefaultEmpty(data, key) ==
    IF ~IsDict(data)
    THEN [ok |-> FALSE,
          e |-> Exc("TypeError", "object is not subscriptable")]
    ELSE IF ~HasKey(data, key)
    THEN [ok |-> TRUE, items |-> <<>>]
    ELSE LET v == Get(data, key)
         IN IF IsList(v) THEN [ok |-> TRUE, items |-> v.l]
            ELSE IF IsStr(v)
            THEN [ok |-> TRUE,
                  items |-> [i \in 1..Len(v.s) |-> PyStr(<<v.s[i]>>)]]
            ELSE [ok |-> FALSE,
                  e |-> Exc("TypeError", "object is not iterable")]

\* for d in data[key]: the items, or the exception that evaluating it raises
IterItems(data, key) ==
    IF ~IsDict(data)
    THEN [ok |-> FALSE,
          e |-> Exc("TypeError", "object is not subscriptable")]
    ELSE IF ~HasKey(data, key)
    THEN [ok |-> FALSE, e |-> Exc("KeyError", "format key")]
    ELSE LET v == Get(data, key)
         IN IF IsList(v) THEN [ok |-> TRUE, items |-> v.l]
            ELSE IF IsStr(v)
            THEN [ok |-> TRUE,
                  items |-> [i \in 1..Len(v.s) |-> PyStr(<<v.s[i]>>)]]
            ELSE [ok |-> FALSE,
                  e |-> Exc("TypeError", "object is not iterable")]

\* data[key] = v
SetKey(data, key, v) ==
    PyDict([k \in DOMAIN data.d \cup {PyStr(key)} |->
               IF k = PyStr(key) THEN v ELSE data.d[k]])

S_json == <<"j", "s", "o", "n">>
S_csv == <<"c", "s", "v">>
S_stream == <<"s", "t", "r", "e", "a", "m">>

\* the first key of keys that d lacks, as the KeyError it raises
MissingKey(d, keys) ==
    LET i == CHOOSE j \in 1..Len(keys) :
                 /\ ~HasKey(d, keys[j])
                 /\ \A j2 \in 1..(j - 1) : HasKey(d, keys[j2])
    IN Exc("KeyError", keys[i])

HasAll(d, keys) == \A j \in 1..Len(keys) : HasKey(d, keys[j])

\* JSONAdapter.process
JSONAdapterProcess(stages, data) ==
    LET it == IterItems(data, S_json)
    IN
    IF ~it.ok THEN Raised(<<>>, it.e, data)
    ELSE IF it.items = <<>> THEN LoopNeverRan(data)
    ELSE IF Len(stages) # 3
    THEN Raised(<<>>,
                Exc("ValueError", "JSON pipeline requires exactly 3 stages"),
                data)
    ELSE
    LET d0 == it.items[1]
        c1 == <<StageCall(1, d0)>>
        parsed == IF IsStr(d0) THEN JsonLoads(d0.s)
                  ELSE [ok |-> TRUE, val |-> d0]
    IN
    IF StageRaises(stages[1], d0)
    THEN Raised(c1, Exc("ValueError", "Input data cannot be None"), data)
    ELSE IF ~parsed.ok
    THEN Raised(c1, Exc("JSONDecodeError", "json.loads"), data)
    ELSE
    LET d == parsed.val
        keys == <<S_sensor, S_value, S_unit>>
    IN
    IF ~IsDict(d)
    THEN Raised(c1, Exc("TypeError", "object is not subscriptable"), data)
    ELSE IF ~HasAll(d, keys) THEN Raised(c1, MissingKey(d, keys), data)
    ELSE IF ~IsStr(Get(d, S_unit))
    THEN Raised(c1, Exc("TypeError", "can only concatenate str to str"), data)
    ELSE
    LET result == PyDict(Get(d, S_sensor)
                         :> PyStr(StrOf(Get(d, S_value)) \o Get(d, S_unit).s))
        c2 == Append(c1, StageCall(2, result))
        data2 == SetKey(data, S_json, PyList(<<result>>))
    IN
    IF StageRaises(stages[2], result)
    THEN Raised(c2, Exc("ValueError", "Input data cannot be None"), data)
    ELSE IF ~HasKey(result, S_temp)
    THEN Raised(c2, Exc("KeyError", S_temp), data2)
    ELSE
    LET line == FStr("Processed temperature reading: {}",
                     <<Get(result, S_temp)>>)
    IN Returned(Append(c2, StageCall(3, line)), data2, 1)

\* str.split(","): the fields between the commas
RECURSIVE Split(_)
Split(cs) ==
    IF \A i \in 1..Len(cs) : cs[i] # ","
    THEN <<cs>>
    ELSE LET i == CHOOSE j \in 1..Len(cs) :
                      cs[j] = "," /\ \A j2 \in 1..(j - 1) : cs[j2] # ","
         IN <<SubSeq(cs, 1, i - 1)>> \o Split(SubSeq(cs, i + 1, Len(cs)))

UpperChar(c) ==
    CASE c = "e" -> "E"
      [] c = "r" -> "R"
      [] c = "o" -> "O"
      [] c = "l" -> "L"
      [] c = "g" -> "G"
      [] c = "i" -> "I"
      [] OTHER -> c

\* str.capitalize(): first character upper, the rest lower
Capitalize(cs) ==
    [i \in 1..Len(cs) |-> IF i = 1 THEN UpperChar(cs[i]) ELSE LowerChar(cs[i])]

\* the fields taken with the length tests off by one
CsvRecordOffByOne(parts) ==
    PyDict((PyStr(S_user) :>
               PyStr(IF Len(parts) > 1 THEN parts[1] ELSE <<>>))
           @@ (PyStr(S_action) :>
               PyStr(IF Len(parts) > 2 THEN parts[2] ELSE <<>>))
           @@ (PyStr(S_timestamp) :>
               PyStr(IF Len(parts) > 3 THEN parts[3] ELSE <<>>)))

\* the dict CSVAdapter.process builds from the fields of a line
CsvRecord(parts) ==
    PyDict((PyStr(S_user) :>
               PyStr(IF Len(parts) > 0 THEN parts[1] ELSE <<>>))
           @@ (PyStr(S_action) :>
               PyStr(IF Len(parts) > 1 THEN parts[2] ELSE <<>>))
           @@ (PyStr(S_timestamp) :>
               PyStr(IF Len(parts) > 2 THEN parts[3] ELSE <<>>)))

\* CSVAdapter.process
CSVAdapterProcess(stages, data) ==
    LET it == IterItems(data, S_csv)
    IN
    IF ~it.ok THEN Raised(<<>>, it.e, data)
    ELSE IF it.items = <<>> THEN LoopNeverRan(data)
    ELSE IF Len(stages) # 3
    THEN Raised(<<>>,
                Exc("ValueError", "CSV pipeline requires exactly 3 stages"),
                data)
    ELSE
    LET d0 == it.items[1]
        c1 == <<StageCall(1, d0)>>
        d == IF IsStr(d0) THEN CsvRecord(Split(d0.s)) ELSE d0
        c2 == Append(c1, StageCall(2, d))
        keys == <<S_user, S_action, S_timestamp>>
    IN
    IF StageRaises(stages[1], d0)
    THEN Raised(c1, Exc("ValueError", "Input data cannot be None"), data)
    ELSE IF StageRaises(stages[2], d)
    THEN Raised(c2, Exc("ValueError", "Input data cannot be None"), data)
    ELSE IF ~IsDict(d)
    THEN Raised(c2, Exc("TypeError", "object is not subscriptable"), data)
    ELSE IF ~HasKey(d, S_user) THEN Raised(c2, MissingKey(d, keys), data)
    ELSE IF ~IsStr(Get(d, S_user))
    THEN Raised(c2, Exc("AttributeError", "capitalize"), data)
    ELSE IF ~HasAll(d, keys) THEN Raised(c2, MissingKey(d, keys), data)
    ELSE
    LET line == FStr("{} activity logged: {} at {}",
                     <<PyStr(Capitalize(Get(d, S_user).s)),
                       Get(d, S_action), Get(d, S_timestamp)>>)
        data2 == SetKey(data, S_csv, PyList(<<d>>))
    IN Returned(Append(c2, StageCall(3, line)), data2, 1)

\* isinstance(x, (int, float))
IsNumber(x) == x.t \in {"int", "bool", "float"}

\* a number in tenths
Tenths(x) ==
    CASE x.t = "float" -> x.tenths
      [] x.t = "bool" -> IF x.b THEN 10 ELSE 0
      [] OTHER -> 10 * x.v

\* reading["value"] can be evaluated
ReadingOk(reading) == IsDict(reading) /\ HasKey(reading, S_value)

\* the transform loop of StreamAdapter.process over the first n readings
RECURSIVE StreamLoop(_, _)
StreamLoop(readings, n) ==
    IF n = 0
    THEN [reading_count |-> 0, error_count |-> 0, processed_readings |-> <<>>]
    ELSE LET acc == StreamLoop(readings, n - 1)
             reading == readings[n]
         IN IF ~IsNumber(Get(reading, S_value))
            THEN [acc EXCEPT !.reading_count = @ + 1, !.error_count = @ + 1]
            ELSE [acc EXCEPT !.reading_count = @ + 1,
                             !.processed_readings = Append(@, reading)]

RECURSIVE SumTenths(_, _)
SumTenths(xs, n) ==
    IF n = 0 THEN 0 ELSE SumTenths(xs, n - 1) + Tenths(Get(xs[n], S_value))

\* StreamAdapter.average_temperature, kept exact: num / den
AverageTemperature(rs) ==
    IF rs = <<>> THEN [t |-> "float", num |-> 0, den |-> 1]
    ELSE [t |-> "float", num |-> SumTenths(rs, Len(rs)), den |-> 10 * Len(rs)]

\* f"\n{pd.DataFrame(rs)}": a newline, then the table pandas renders of rs
FrameText(rs) == [t |-> "str", s |-> <<"\n">>, frame |-> rs]

\* StreamAdapter.process
StreamAdapterProcess(stages, data) ==
    LET it == IterItems(data, S_stream)
    IN
    IF ~it.ok THEN Raised(<<>>, it.e, data)
    ELSE IF it.items = <<>> THEN LoopNeverRan(data)
    ELSE IF Len(stages) # 3
    THEN Raised(<<>>,
                Exc("ValueError", "Stream pipeline requires exactly 3 stages"),
                data)
    ELSE
    LET d0 == it.items[1]
        c1 == <<StageCall(1, d0)>>
        readings == IF IsList(d0) THEN d0.l ELSE <<d0>>
    IN
    IF StageRaises(stages[1], d0)
    THEN Raised(c1, Exc("ValueError", "Input data cannot be None"), data)
    ELSE IF \E i \in 1..Len(readings) : ~IsDict(readings[i])
                /\ \A j \in 1..(i - 1) : ReadingOk(readings[j])
    THEN Raised(c1, Exc("TypeError", "object is not subscriptable"), data)
    ELSE IF \E i \in 1..Len(readings) : ~ReadingOk(readings[i])
    THEN Raised(c1, Exc("KeyError", S_value), data)
    ELSE
    LET acc == StreamLoop(readings, Len(readings))
        result == FrameText(acc.processed_readings)
        c2 == Append(c1, StageCall(2, result))
        avg_temp == AverageTemperature(acc.processed_readings)
        data2 == SetKey(data, S_stream, result)
        line == FStr("Stream summary: {} valid readings, {} errors, avg temp: {:.2f}",
                     <<PyInt(acc.reading_count), PyInt(acc.error_count),
                       avg_temp>>)
    IN
    IF StageRaises(stages[2], result)
    THEN Raised(c2, Exc("ValueError", "Input data cannot be None"), data)
    ELSE Returned(Append(c2, StageCall(3, line)), data2,
                  Len(acc.processed_readings))

\* pipeline.process, dispatched on the adapter's class
AdapterProcess(p, data) ==
    CASE p.kind = "JSONAdapter" -> JSONAdapterProcess(p.stages, data)
      [] p.kind = "CSVAdapter" -> CSVAdapterProcess(p.stages, data)
      [] OTHER -> StreamAdapterProcess(p.stages, data)

VARIABLES pipelines, manager_processed_count, obs

nx_vars == <<pipelines, manager_processed_count, obs>>

AdapterKinds == {"JSONAdapter", "CSVAdapter", "StreamAdapter"}

\* ProcessingPipeline.__init__ (wall-clock total_time is left out)
NewPipeline(kind) == [kind |-> kind, stages |-> <<>>, processed_count |-> 0]

\* the stage main() adds at each position; a further one is one stage too many
StageAt(n) ==
    CASE n = 1 -> "InputStage"
      [] n = 2 -> "TransformStage"
      [] OTHER -> "OutputStage"

\* inputs ------------------------------------------------------------------

JsonText(sensor) ==
    PyStr(<<LBrace, StrTok(S_sensor), Colon, StrTok(sensor), Comma,
            StrTok(S_value), Colon, NumTok(PyFloat(235)), Comma,
            StrTok(S_unit), Colon, StrTok(<<"C">>), RBrace>>)
JTextTemp == JsonText(S_temp)
JTextHum == JsonText(<<"h", "u", "m">>)
\* '{"invalid": "format", missing bracket'
JTextBad ==
    PyStr(<<LBrace, StrTok(<<"i", "n", "v">>), Colon, StrTok(<<"f", "m", "t">>),
            Comma, WordTok(<<"m", "i", "s", "s", "i", "n", "g">>),
            WordTok(<<"b", "r", "a", "c", "k", "e", "t">>)>>)
JDictTemp ==
    PyDict((PyStr(S_sensor) :> PyStr(S_temp))
           @@ (PyStr(S_value) :> PyInt(21))
           @@ (PyStr(S_unit) :> PyStr(<<"C">>)))
JDictHum ==
    PyDict((PyStr(S_sensor) :> PyStr(<<"h", "u", "m">>))
           @@ (PyStr(S_value) :> PyInt(40))
           @@ (PyStr(S_unit) :> PyStr(<<"%">>)))

JsonItems == {JTextTemp, JTextHum, JTextBad, JDictTemp, JDictHum, None}

CLine1 == PyStr(<<"g", "i", "l">>)
CLine2 == PyStr(<<"g", "i", "l", ",", "i", "n">>)
CLine3 == PyStr(<<"g", "I", "l", ",", "i", "n", ",", "2", "3">>)
CLine4 == PyStr(<<"g", "i", "l", ",", "i", "n", ",", "2", "3", ",", "x">>)
CDict ==
    PyDict((PyStr(S_user) :> PyStr(<<"l", "e", "o">>))
           @@ (PyStr(S_action) :> PyStr(<<"i", "n">>))
           @@ (PyStr(S_timestamp) :> PyStr(<<"2", "3">>)))

CsvItems == {CLine1, CLine2, CLine3, CLine4, CDict, None}

Reading(id, value) ==
    PyDict((PyStr(S_sensor_id) :> PyInt(id)) @@ (PyStr(S_value) :> value))
RNum == Reading(1, PyFloat(221))
RInt == Reading(3, PyInt(22))
RErr == Reading(2, PyStr(S_error))
RNone == Reading(6, None)
RNoValue == PyDict(PyStr(S_sensor_id) :> PyInt(7))

Readings == {RNum, RErr, RNone}

StreamItems ==
    {PyList(rs) : rs \in SeqsUpTo(Readings, MaxItems)}
    \cup {RNum, RErr, RNoValue, None, PyList(<<RNum, RNoValue>>),
          PyList(<<RInt, RErr>>), PyList(<<RInt>>)}

OneKey(key, v) == PyDict(PyStr(key) :> v)

\* what a caller hands to one adapter's process
JsonInputs ==
    {OneKey(S_json, PyList(xs)) :
        xs \in SeqsUpTo({JTextTemp, JTextBad, JDictTemp}, MaxItems)}
    \cup {OneKey(S_json, PyList(<<x>>)) : x \in JsonItems}
    \cup {None, OneKey(S_csv, PyList(<<CLine3>>)), OneKey(S_json, JTextBad),
          OneKey(S_json, None)}
CsvInputs ==
    {OneKey(S_csv, PyList(xs)) :
        xs \in SeqsUpTo({CLine3, CLine2, None}, MaxItems)}
    \cup {OneKey(S_csv, PyList(<<x>>)) : x \in CsvItems}
    \cup {None, OneKey(S_json, PyList(<<JTextTemp>>)), OneKey(S_csv, None)}
StreamInputs ==
    {OneKey(S_stream, PyList(<<x>>)) : x \in StreamItems}
    \cup {OneKey(S_stream, PyList(<<>>)),
          OneKey(S_stream, PyList(<<PyList(<<RErr>>), PyList(<<RNum>>)>>)),
          None, OneKey(S_json, PyList(<<JTextTemp>>)), OneKey(S_stream, None)}

AdapterInputs(kind) ==
    CASE kind = "JSONAdapter" -> JsonInputs
      [] kind = "CSVAdapter" -> CsvInputs
      [] OTHER -> StreamInputs

\* what a caller hands to NexusManager.process_data: a dict of formats
Absent == [t |-> "absent"]
ManagerJson ==
    {Absent, PyList(<<JTextTemp>>), PyList(<<JTextBad>>), PyList(<<JTextHum>>),
     PyList(<<>>)}
ManagerCsv == {Absent, PyList(<<CLine3>>), PyList(<<None>>)}
ManagerStream ==
    {Absent, PyList(<<PyList(<<RNum, RErr, RInt>>)>>), PyList(<<RNoValue>>)}

MultiFormat(j, c, s) ==
    LET keys == (IF j = Absent THEN {} ELSE {PyStr(S_json)})
                \cup (IF c = Absent THEN {} ELSE {PyStr(S_csv)})
                \cup (IF s = Absent THEN {} ELSE {PyStr(S_stream)})
    IN PyDict([k \in keys |->
                  IF k = PyStr(S_json) THEN j
                  ELSE IF k = PyStr(S_csv) THEN c ELSE s])

ManagerInputs ==
    {MultiFormat(j, c, s) : j \in ManagerJson, c \in ManagerCsv,
                            s \in ManagerStream}
    \cup {None}

\* actions -----------------------------------------------------------------

NoObs == [op |-> "none", runs |-> <<>>]

\* one adapter call as its caller sees it
Run(i, p, data) ==
    [pipeline |-> i, kind |-> p.kind, stages |-> p.stages, data |-> data,
     before |-> p.processed_count, out |-> AdapterProcess(p, data)]

\* ProcessingPipeline.add_stage
AddStage(i) ==
    /\ Len(pipelines[i].stages) < MaxStages
    /\ pipelines' = [pipelines EXCEPT
                       ![i].stages = Append(@, StageAt(Len(@) + 1))]
    /\ obs' = NoObs
    /\ UNCHANGED manager_processed_count

\* pipeline.process(data), called on an adapter directly
Process(i, data) ==
    LET run == Run(i, pipelines[i], data)
    IN /\ pipelines[i].processed_count < MaxCount
       /\ pipelines' = [pipelines EXCEPT
                          ![i].processed_count = @ + run.out.inc]
       /\ obs' = [op |-> "process", runs |-> <<run>>]
       /\ UNCHANGED manager_processed_count

\* a pipeline built as main() builds it (constructor, three add_stage
\* calls) and handed to NexusManager.add_pipeline
AddPipeline(kind) ==
    /\ Len(pipelines) < MaxPipelines
    /\ pipelines' =
         Append(pipelines,
                [NewPipeline(kind) EXCEPT
                   !.stages = <<StageAt(1), StageAt(2), StageAt(3)>>])
    /\ obs' = NoObs
    /\ UNCHANGED manager_processed_count

\* the loop of NexusManager.process_data over the first n pipelines:
\* the data handed on, the pipelines, the global count and the runs so far
RECURSIVE ProcessDataLoop(_, _, _, _)
ProcessDataLoop(ps, count, data, n) ==
    IF n = 0
    THEN [data |-> data, pipelines |-> ps, count |-> count, runs |-> <<>>]
    ELSE LET acc == ProcessDataLoop(ps, count, data, n - 1)
             run == Run(n, acc.pipelines[n], acc.data)
             after == acc.pipelines[n].processed_count + run.out.inc
         IN [data |-> run.out.ret,
             pipelines |-> [acc.pipelines EXCEPT ![n].processed_count = after],
             count |-> acc.count + after,
             runs |-> Append(acc.runs, run)]

\* NexusManager.process_data
ProcessData(data) ==
    LET res == ProcessDataLoop(pipelines, manager_processed_count, data,
                               Len(pipelines))
    IN /\ manager_processed_count < MaxTotal
       /\ pipelines' = res.pipelines
       /\ manager_processed_count' = res.count
       /\ obs' = [op |-> "process_data", runs |-> res.runs]

NXIdle ==
    /\ pipelines = <<>>
    /\ manager_processed_count = 0
    /\ obs = NoObs

----------------------------------------------------------------------------
(* ex1/data_stream.py: display, filters, statistics and reports *)

Chars_sep == <<",", " ">>

\* sep.join(parts) over the first n parts
RECURSIVE JoinUpTo(_, _, _)
JoinUpTo(parts, sep, n) ==
    IF n = 0 THEN <<>>
    ELSE IF n = 1 THEN parts[1]
    ELSE JoinUpTo(parts, sep, n - 1) \o sep \o parts[n]

Join(parts, sep) == JoinUpTo(parts, sep, Len(parts))

\* the int a transaction amount stands for: True is 1, False is 0
IntVal(x) == IF x.t = "bool" THEN (IF x.b THEN 1 ELSE 0) ELSE x.v

\* the display entries SensorStream.format_data makes of one reading; the
\* degree sign is written as the piece "deg"
SensorEntries(data) ==
    (IF "temp" \in DOMAIN data.d
     THEN <<<<"t", "e", "m", "p", ":", " ">> \o StrOf(data.d.temp)
            \o <<"deg", "C">>>>
     ELSE <<>>)
    \o (IF "humidity" \in DOMAIN data.d
        THEN <<<<"h", "u", "m", "i", "d", "i", "t", "y", ":", " ">>
               \o StrOf(data.d.humidity) \o <<"%", "H", "R">>>>
        ELSE <<>>)
    \o (IF "pressure" \in DOMAIN data.d
        THEN <<<<"p", "r", "e", "s", "s", "u", "r", "e", ":", " ">>
               \o StrOf(data.d.pressure) \o <<" ", "h", "P", "a">>>>
        ELSE <<>>)
    \o (IF "entropy" \in DOMAIN data.d
        THEN <<<<"e", "n", "t", "r", "o", "p", "y", ":", " ">>
               \o StrOf(data.d.entropy)
               \o <<" ", "J", "/", "(", "k", "g", ".", "K", ")">>>>
        ELSE <<>>)

RECURSIVE SensorDisplay(_, _)
SensorDisplay(processed_data, n) ==
    IF n = 0 THEN <<>>
    ELSE SensorDisplay(processed_data, n - 1)
         \o SensorEntries(processed_data[n])

\* SensorStream.format_data
SensorFormatData(processed_data) ==
    Join(SensorDisplay(processed_data, Len(processed_data)), Chars_sep)

\* TransactionStream.format_data
TransactionFormatData(processed_data) ==
    Join([i \in 1..Len(processed_data) |->
            IF IntVal(processed_data[i]) >= 0
            THEN <<"b", "u", "y", ":">> \o StrOf(processed_data[i])
            ELSE <<"s", "e", "l", "l", ":">>
                 \o IntChars(-IntVal(processed_data[i]))],
         Chars_sep)

\* EventStream.format_data
EventFormatData(processed_data) ==
    Join([i \in 1..Len(processed_data) |-> processed_data[i].s], Chars_sep)

\* data.get(key, default), in tenths
SensorGet(data, key, default) ==
    IF key \in DOMAIN data.d THEN Tenths(data.d[key]) ELSE default

\* the test of SensorStream.filter_data
Critical(data) ==
    \/ SensorGet(data, "temp", 0) < 0
    \/ SensorGet(data, "temp", 0) > 350
    \/ SensorGet(data, "humidity", 0) > 800
    \/ SensorGet(data, "pressure", 10130) < 9800
    \/ SensorGet(data, "pressure", 10130) > 10200
    \/ SensorGet(data, "entropy", 0) > 40

\* SensorStream.filter_data on a list of readings
SensorFilterData(data_batch) == SelectSeq(data_batch, Critical)

\* the test of TransactionStream.filter_data: abs(d) > 1000
Large(d) == IntVal(d) > 1000 \/ -IntVal(d) > 1000

\* TransactionStream.filter_data
TransactionFilterData(data_batch) == SelectSeq(data_batch, Large)

\* the test of EventStream.filter_data
IsErrorEvent(d) == ContainsError(Lower(d.s))

\* EventStream.filter_data
EventFilterData(data_batch) == SelectSeq(data_batch, IsErrorEvent)

\* sum(xs) of the first n ints
RECURSIVE SumInts(_, _)
SumInts(xs, n) ==
    IF n = 0 THEN 0 ELSE SumInts(xs, n - 1) + IntVal(xs[n])

\* the sign test narrowed to netflow > 0
NetflowStrictPositive(stream) ==
    LET netflow == SumInts(stream.processed_data, Len(stream.processed_data))
    IN IF netflow > 0 THEN <<"+">> \o IntChars(netflow)
       ELSE IntChars(netflow)

\* TransactionStream.netflow: the text it returns
Netflow(stream) ==
    LET netflow == SumInts(stream.processed_data, Len(stream.processed_data))
    IN IF netflow >= 0 THEN <<"+">> \o IntChars(netflow)
       ELSE IntChars(netflow)

\* sum(xs) of the first n temperatures, in tenths
RECURSIVE SumTemps(_, _)
SumTemps(xs, n) ==
    IF n = 0 THEN 0 ELSE SumTemps(xs, n - 1) + Tenths(xs[n])

\* the mean taken over every reading instead of the registered temperatures
AvgTempOverAll(stream) ==
    IF stream.registered_temps = <<>> THEN [t |-> "float", num |-> 0, den |-> 1]
    ELSE [t |-> "float",
          num |-> SumTemps(stream.registered_temps,
                           Len(stream.registered_temps)),
          den |-> 10 * Len(stream.processed_data)]

\* SensorStream.avg_temp: 0.0, or the exact quotient sum / len in tenths
AvgTemp(stream) ==
    IF stream.registered_temps = <<>> THEN [t |-> "float", num |-> 0, den |-> 1]
    ELSE [t |-> "float",
          num |-> SumTemps(stream.registered_temps,
                           Len(stream.registered_temps)),
          den |-> 10 * Len(stream.registered_temps)]

\* what SensorStream.process_batch returns
SensorSummary(stream) ==
    FStr("Stream ID: {}, Type: {}\nProcessing sensor batch: [{}]\nSensor analysis: {} readings processed, avg temp: {:.1f}degC",
         <<stream.stream_id, stream.data_type,
           SensorFormatData(stream.processed_data),
           Len(stream.processed_data), AvgTemp(stream)>>)

\* what TransactionStream.process_batch returns
TransactionSummary(stream) ==
    FStr("Stream ID: {}, Type: {}\nProcessing transaction batch: [{}]\nTransaction analysis: {} operations processed, net flow: {} units",
         <<stream.stream_id, stream.data_type,
           TransactionFormatData(stream.processed_data),
           Len(stream.processed_data), Netflow(stream)>>)

\* what EventStream.process_batch returns
EventSummary(stream) ==
    FStr("Stream ID: {}, Type: {}\nProcessing event batch: [{}]\nEvent analysis: {} events, {} errors detected",
         <<stream.stream_id, stream.data_type,
           EventFormatData(stream.processed_data),
           Len(stream.processed_data), Len(stream.errors)>>)

\* StreamProcessor.total_count
TotalCount ==
    Len(sensor_streams) + Len(transaction_streams) + Len(event_streams)

\* StreamProcessor.processing_report: the numbers the report prints
ProcessingReport ==
    [total |-> TotalCount,
     sensor |-> Len(sensor_streams),
     transaction |-> Len(transaction_streams),
     event |-> Len(event_streams)]

\* the loop of StreamProcessor.filtered_data over streams: the display of
\* each stream's filtered data, kept when it is not the empty string
NotEmptyText(data) == data # <<>>

\* StreamProcessor.filtered_data
FilteredData ==
    [critical_sensor_data |->
         SelectSeq([i \in 1..Len(sensor_streams) |->
                       SensorFormatData(
                           SensorFilterData(sensor_streams[i].processed_data))],
                   NotEmptyText),
     large_transactions |->
         SelectSeq([i \in 1..Len(transaction_streams) |->
                       TransactionFormatData(
                           TransactionFilterData(
                               transaction_streams[i].processed_data))],
                   NotEmptyText),
     error_events |->
         SelectSeq([i \in 1..Len(event_streams) |->
                       EventFormatData(
                           EventFilterData(event_streams[i].processed_data))],
                   NotEmptyText)]

\* StreamProcessor.filtered_results: the numbers the summary prints
FilteredResults ==
    [sensor_alerts |-> Len(FilteredData.critical_sensor_data),
     large_transactions |-> Len(FilteredData.large_transactions),
     error_events |-> Len(FilteredData.error_events)]

vars == <<ds_vars, nx_vars>>

\* the stream dispatcher of ex1
Init == DSInit /\ NXIdle

Next == Dispatch /\ UNCHANGED nx_vars

Spec == Init /\ [][Next]_vars

\* one adapter of ex2, staged and called directly
AdapterInit ==
    /\ DSInit
    /\ \E kind \in AdapterKinds : pipelines = <<NewPipeline(kind)>>
    /\ manager_processed_count = 0
    /\ obs = NoObs

AdapterAddStage == AddStage(1) /\ UNCHANGED ds_vars

AdapterCall ==
    /\ \E data \in AdapterInputs(pipelines[1].kind) : Process(1, data)
    /\ UNCHANGED ds_vars

AdapterNext == AdapterAddStage \/ AdapterCall

AdapterSpec == AdapterInit /\ [][AdapterNext]_vars

\* the NexusManager of ex2 and its pipelines
ManagerInit == DSInit /\ NXIdle

ManagerAddPipeline ==
    /\ \E kind \in AdapterKinds : AddPipeline(kind)
    /\ UNCHANGED ds_vars

ManagerProcessData ==
    /\ \E data \in ManagerInputs : ProcessData(data)
    /\ UNCHANGED ds_vars

ManagerNext == ManagerAddPipeline \/ ManagerProcessData

ManagerSpec == ManagerInit /\ [][ManagerNext]_vars

\* one stream of each kind of ex1, held by a caller who feeds it batches of
\* its own type through process_batch
Reading3 == PyDict([temp |-> PyFloat(225), humidity |-> PyInt(90)])
TextLower == PyStr(<<"e", "r", "r", "o", "r">>)

SensorBatches ==
    {PyList(xs) : xs \in SeqsUpTo({Reading1, Reading2}, MaxBatchLen)}
    \cup {PyList(<<Reading3>>), Reading3}
TransactionBatches ==
    {PyList(xs) : xs \in SeqsUpTo({PyInt(100), PyInt(-100)}, MaxBatchLen)}
    \cup {PyList(<<PyInt(-2500)>>), PyList(<<PyBool(TRUE)>>)}
EventBatches ==
    {PyList(xs) : xs \in SeqsUpTo({TextError, TextLogin}, MaxBatchLen)}
    \cup {PyList(<<TextLower>>)}

StreamInit ==
    /\ sensor_streams =
         <<SensorStream([prefix |-> "SENSOR-", digits |-> Fmt03d(1)])>>
    /\ transaction_streams =
         <<TransactionStream([prefix |-> "TRANS-", digits |-> Fmt03d(1)])>>
    /\ event_streams =
         <<EventStream([prefix |-> "EVENT-", digits |-> Fmt03d(1)])>>
    /\ submitted = <<>>
    /\ ret = None
    /\ NXIdle

\* sensor_stream.process_batch(data_batch)
StreamSensorBatch ==
    \E data_batch \in SensorBatches :
        /\ Len(submitted) < MaxCalls
        /\ submitted' = Append(submitted, data_batch)
        /\ sensor_streams' =
             <<SensorProcessBatch(sensor_streams[1], data_batch)>>
        /\ ret' = SensorSummary(sensor_streams'[1])
        /\ UNCHANGED <<transaction_streams, event_streams, nx_vars>>

\* transaction_stream.process_batch(data_batch)
StreamTransactionBatch ==
    \E data_batch \in TransactionBatches :
        /\ Len(submitted) < MaxCalls
        /\ submitted' = Append(submitted, data_batch)
        /\ transaction_streams' =
             <<TransactionProcessBatch(transaction_streams[1], data_batch)>>
        /\ ret' = TransactionSummary(transaction_streams'[1])
        /\ UNCHANGED <<sensor_streams, event_streams, nx_vars>>

\* event_stream.process_batch(data_batch)
StreamEventBatch ==
    \E data_batch \in EventBatches :
        /\ Len(submitted) < MaxCalls
        /\ submitted' = Append(submitted, data_batch)
        /\ event_streams' =
             <<EventProcessBatch(event_streams[1], data_batch)>>
        /\ ret' = EventSummary(event_streams'[1])
        /\ UNCHANGED <<sensor_streams, transaction_streams, nx_vars>>

StreamNext == StreamSensorBatch \/ StreamTransactionBatch \/ StreamEventBatch

StreamSpec == StreamInit /\ [][StreamNext]_vars


----------------------------------------------------------------------------
(* Claims about the stream dispatcher (Spec) *)

LastBatch == submitted[Len(submitted)]

\* what a batch contributes to a stream: a single mapping is one reading
ItemsOf(b) == IF IsDict(b) THEN <<b>> ELSE b.l

\* the items of the first n submitted batches that the dispatcher took for
\* kind, in submission order
RECURSIVE KindHistory(_, _)
KindHistory(kind, n) ==
    IF n = 0 THEN <<>>
    ELSE KindHistory(kind, n - 1)
         \o (IF Classify(submitted[n]) = kind THEN ItemsOf(submitted[n])
             ELSE <<>>)

OneStreamHolding(streams, kind) ==
    /\ Len(streams) <= 1
    /\ Len(streams) = 1 =>
         streams[1].processed_data = KindHistory(kind, Len(submitted))

\* C2: the orchestrator holds at most one Stream per kind, and that Stream's
\* processed_data is the in-order concatenation of every batch of the kind
\* submitted so far.
C2_OneStreamPerKind ==
    /\ OneStreamHolding(sensor_streams, "Sensor")
    /\ OneStreamHolding(transaction_streams, "Transaction")
    /\ OneStreamHolding(event_streams, "Event")

\* C3: dispatching an empty sequence creates no Stream of any kind and
\* returns no stream.
C3_EmptyIsUnknown ==
    [][(submitted' # submitted
        /\ submitted'[Len(submitted')] = PyList(<<>>))
       => /\ ret' = None
          /\ UNCHANGED <<sensor_streams, transaction_streams,
                         event_streams>>]_vars

\* the kind process_any_stream chose for the batch it was last given, read
\* off the stream it returned
ChosenKind == IF ret = None THEN "Unknown" ELSE ret.kind

NonEmptyBatch(b) == ~(IsList(b) /\ b.l = <<>>)

WholeFloat(x) == x.t = "float" /\ x.tenths % 10 = 0

\* the precedence rules as C4 words them: whole floats count as amounts
KindWithWholeFloats(b) ==
    IF b.t = "dict" \/ (b.t = "list" /\ \A i \in 1..Len(b.l) : b.l[i].t = "dict")
    THEN "Sensor"
    ELSE IF b.t = "list"
            /\ \A i \in 1..Len(b.l) :
                 b.l[i].t \in {"int", "bool"} \/ WholeFloat(b.l[i])
    THEN "Transaction"
    ELSE IF b.t = "list" /\ \A i \in 1..Len(b.l) : b.l[i].t = "str"
    THEN "Event"
    ELSE "Unknown"

\* the precedence rules with integers only
KindIntegersOnly(b) ==
    IF b.t = "dict" \/ (b.t = "list" /\ \A i \in 1..Len(b.l) : b.l[i].t = "dict")
    THEN "Sensor"
    ELSE IF b.t = "list" /\ \A i \in 1..Len(b.l) : b.l[i].t \in {"int", "bool"}
    THEN "Transaction"
    ELSE IF b.t = "list" /\ \A i \in 1..Len(b.l) : b.l[i].t = "str"
    THEN "Event"
    ELSE "Unknown"

\* C4 as stated: for every non-empty batch the chosen kind follows the
\* precedence rules, a list of integers or whole floats being Transaction.
C4_Original ==
    (submitted # <<>> /\ NonEmptyBatch(LastBatch))
    => ChosenKind = KindWithWholeFloats(LastBatch)

\* C4 amended: for every non-empty batch the chosen kind follows the
\* precedence rules with Transaction meaning a list of integers only; a list
\* holding a float, whole or not, is Unknown.
C4_Precedence ==
    (submitted # <<>> /\ NonEmptyBatch(LastBatch))
    => /\ ChosenKind = KindIntegersOnly(LastBatch)
       /\ (IsList(LastBatch) /\ \E i \in 1..Len(LastBatch.l) :
              IsFloat(LastBatch.l[i]))
          => ret = None

C4_Witness ==
    /\ submitted # <<>>
    /\ LastBatch = PyList(<<PyInt(100), PyFloat(50)>>)
    /\ ret = None
    /\ Len(submitted) = 2
    /\ Len(transaction_streams) = 1

----------------------------------------------------------------------------
(* Claims about one adapter (AdapterSpec) *)

Called == obs.op = "process"
TheRun == obs.runs[1]

\* the batch a caller handed in under the adapter's own format key
FormatKey(kind) ==
    CASE kind = "JSONAdapter" -> S_json
      [] kind = "CSVAdapter" -> S_csv
      [] OTHER -> S_stream

HasBatch(run) ==
    /\ IsDict(run.data)
    /\ HasKey(run.data, FormatKey(run.kind))
    /\ IsList(Get(run.data, FormatKey(run.kind)))

BatchOf(run) == Get(run.data, FormatKey(run.kind)).l

\* the calls of a run that reached the output stage, stages[2]
OutputCalls(run) ==
    {i \in 1..Len(run.out.stage_calls) : run.out.stage_calls[i].stage = 3}

\* an item each adapter carries through when it is alone in its batch, and
\* one it rejects when alone
ValidItem(kind, x) ==
    IF kind = "JSONAdapter" THEN x \in {JTextTemp, JDictTemp}
    ELSE x \in {CLine3, CDict}
MalformedItem(kind, x) ==
    IF kind = "JSONAdapter" THEN x = JTextBad ELSE x = None

OneMalformedAmongValid(kind, items) ==
    \E m \in 1..Len(items) :
        /\ MalformedItem(kind, items[m])
        /\ \A i \in 1..Len(items) : i # m => ValidItem(kind, items[i])

\* C1: on a 3-stage JSON or CSV adapter, a batch of N valid items and one
\* malformed item carries exactly N items to the output stage, reports
\* exactly one error and raises processed_count by exactly N.
C1_PartialFailureIsolation ==
    (/\ Called
     /\ TheRun.kind \in {"JSONAdapter", "CSVAdapter"}
     /\ Len(TheRun.stages) = 3
     /\ HasBatch(TheRun)
     /\ OneMalformedAmongValid(TheRun.kind, BatchOf(TheRun)))
    => /\ Cardinality(OutputCalls(TheRun)) = Len(BatchOf(TheRun)) - 1
       /\ Len(TheRun.out.errors) = 1
       /\ pipelines[1].processed_count
            = TheRun.before + Len(BatchOf(TheRun)) - 1

ConfigurationError(e) ==
    /\ e.type = "ValueError"
    /\ e.msg \in {"JSON pipeline requires exactly 3 stages",
                  "CSV pipeline requires exactly 3 stages",
                  "Stream pipeline requires exactly 3 stages"}

\* C7: an adapter whose number of stages is not 3 reports a configuration
\* error on every batch, the empty one included, runs no stage and leaves
\* processed_count unchanged.
C7_WrongArityRejected ==
    (Called /\ Len(TheRun.stages) # 3 /\ HasBatch(TheRun))
    => /\ \E i \in 1..Len(TheRun.out.errors) :
            ConfigurationError(TheRun.out.errors[i])
       /\ TheRun.out.stage_calls = <<>>
       /\ pipelines[1].processed_count = TheRun.before

\* a JSON item that is an object with keys sensor, value and unit
SensorObject(x) ==
    LET keys == <<S_sensor, S_value, S_unit>>
    IN \/ IsDict(x) /\ HasAll(x, keys)
       \/ /\ IsStr(x)
          /\ JsonLoads(x.s).ok
          /\ IsDict(JsonLoads(x.s).val)
          /\ HasAll(JsonLoads(x.s).val, keys)

\* C8: a JSON item that is an object with keys sensor, value and unit,
\* whatever the sensor name, reaches the output stage and raises
\* processed_count by 1 without an error being reported.
C8_AnySensorName ==
    (/\ Called
     /\ TheRun.kind = "JSONAdapter"
     /\ Len(TheRun.stages) = 3
     /\ HasBatch(TheRun)
     /\ Len(BatchOf(TheRun)) = 1
     /\ SensorObject(BatchOf(TheRun)[1]))
    => /\ TheRun.out.errors = <<>>
       /\ OutputCalls(TheRun) # {}
       /\ pipelines[1].processed_count = TheRun.before + 1

\* a Stream batch of readings, each with a value
ReadingsBatch(run) ==
    /\ HasBatch(run)
    /\ Len(BatchOf(run)) = 1
    /\ IsList(BatchOf(run)[1])
    /\ \A i \in 1..Len(BatchOf(run)[1].l) : ReadingOk(BatchOf(run)[1].l[i])

NumericReadings(rs) ==
    {i \in 1..Len(rs) : Get(rs[i], S_value).t \in {"int", "bool", "float"}}

\* the summary line the output stage was given
SummaryOf(run) ==
    run.out.stage_calls[CHOOSE i \in OutputCalls(run) : TRUE].arg

\* C9: the Stream summary's count of valid readings is the number of
\* readings with a numeric value, its error count the number of the others,
\* and the two add up to the size of the batch.
C9_SummaryCounts ==
    (/\ Called
     /\ TheRun.kind = "StreamAdapter"
     /\ Len(TheRun.stages) = 3
     /\ ReadingsBatch(TheRun)
     /\ OutputCalls(TheRun) # {})
    => LET rs == BatchOf(TheRun)[1].l
           valid == SummaryOf(TheRun).args[1].v
           errors == SummaryOf(TheRun).args[2].v
       IN /\ valid = Cardinality(NumericReadings(rs))
          /\ errors = Len(rs) - Cardinality(NumericReadings(rs))
          /\ valid + errors = Len(rs)

FieldCount(cs) == Cardinality({i \in 1..Len(cs) : cs[i] = ","}) + 1

\* a 3-stage CSV adapter was handed a batch that starts with a line whose
\* field count is not 3
WrongArityLine ==
    /\ Called
    /\ TheRun.kind = "CSVAdapter"
    /\ Len(TheRun.stages) = 3
    /\ HasBatch(TheRun)
    /\ BatchOf(TheRun) # <<>>
    /\ IsStr(BatchOf(TheRun)[1])
    /\ FieldCount(BatchOf(TheRun)[1].s) # 3

\* C10 as stated: a CSV line whose field count is not 3 is reported as an
\* error, does not reach the output stage and does not raise
\* processed_count.
C10_Original ==
    WrongArityLine
    => /\ TheRun.out.errors # <<>>
       /\ OutputCalls(TheRun) = {}
       /\ pipelines[1].processed_count = TheRun.before

FieldOr(parts, k) == PyStr(IF k <= Len(parts) THEN parts[k] ELSE <<>>)

\* C10 amended: a CSV line whose field count is not 3, first in the batch of
\* a 3-stage adapter, is not malformed: fields past the third are dropped,
\* missing ones are empty text, no error is reported, the line reaches the
\* output stage and raises processed_count by 1.
C10_WrongArityTolerated ==
    WrongArityLine
    => LET parts == Split(BatchOf(TheRun)[1].s)
       IN /\ TheRun.out.errors = <<>>
          /\ Cardinality(OutputCalls(TheRun)) = 1
          /\ SummaryOf(TheRun).args =
               <<PyStr(Capitalize(parts[1])), FieldOr(parts, 2),
                 FieldOr(parts, 3)>>
          /\ pipelines[1].processed_count = TheRun.before + 1

C10_Witness ==
    /\ WrongArityLine
    /\ BatchOf(TheRun) = <<CLine2, CLine3>>
    /\ pipelines[1].processed_count = 2

\* the failing inputs: None as the whole input, an input without the
\* adapter's format key, and a batch whose item at the input stage is None
\* or (for the JSON adapter) invalid JSON text
FailingInput(run) ==
    \/ run.data = None
    \/ IsDict(run.data) /\ ~HasKey(run.data, FormatKey(run.kind))
    \/ /\ HasBatch(run)
       /\ BatchOf(run) # <<>>
       /\ \/ BatchOf(run)[1] = None
          \/ run.kind = "JSONAdapter" /\ BatchOf(run)[1] = JTextBad

\* C13: for every adapter and every failing input, process returns to its
\* caller without raising (it returns None), reports the error, and leaves
\* the adapter's processed_count unchanged.
C13_FailuresContained ==
    (Called /\ FailingInput(TheRun))
    => /\ Len(TheRun.out.errors) = 1
       /\ TheRun.out.ret = None
       /\ TheRun.out.inc = 0
       /\ pipelines[1].processed_count = TheRun.before

C13_Witness ==
    /\ Called
    /\ TheRun.kind = "StreamAdapter"
    /\ Len(TheRun.stages) = 3
    /\ TheRun.before = 1
    /\ HasBatch(TheRun)
    /\ BatchOf(TheRun) = <<None>>
    /\ TheRun.out.stage_calls = <<StageCall(1, None)>>
    /\ TheRun.out.errors =
         <<Exc("ValueError", "Input data cannot be None")>>
    /\ pipelines[1].processed_count = 1

----------------------------------------------------------------------------
(* Claims about the manager (ManagerSpec) *)

ManagerRan == obs.op = "process_data"

Failed(run) == run.out.errors # <<>>

\* what the adapter of a run would have done with the caller's own input
Alone(run) ==
    AdapterProcess([kind |-> run.kind, stages |-> run.stages,
                    processed_count |-> run.before],
                   obs.runs[1].data)

\* C5: when an adapter fails on its own portion of the input, every later
\* adapter (here: of a format no earlier adapter handles) still processes
\* its portion of the same input and raises its processed_count as it would
\* have had the earlier one succeeded.
C5_LaterAdaptersUnaffected ==
    ManagerRan =>
      \A j \in 1..Len(obs.runs) :
         (/\ \E i \in 1..(j - 1) :
                 Failed(obs.runs[i]) /\ HasBatch(obs.runs[i])
          /\ \A i \in 1..(j - 1) : obs.runs[i].kind # obs.runs[j].kind)
         => /\ obs.runs[j].out.inc = Alone(obs.runs[j]).inc
            /\ Cardinality(OutputCalls(obs.runs[j]))
                 = Cardinality({c \in 1..Len(Alone(obs.runs[j]).stage_calls) :
                                  Alone(obs.runs[j]).stage_calls[c].stage = 3})

RECURSIVE SumCounts(_, _)
SumCounts(ps, n) ==
    IF n = 0 THEN 0 ELSE SumCounts(ps, n - 1) + ps[n].processed_count

\* C6: the manager's processed_count equals the sum of the processed_count
\* of its pipelines.
C6_GlobalCountIsSum ==
    manager_processed_count = SumCounts(pipelines, Len(pipelines))

----------------------------------------------------------------------------
(* Claims about the dispatcher's reports (Spec) *)

\* C11: the counts in the processing report (sensor readings, transactions,
\* events, and their total) equal the number of items ingested so far for
\* each kind and overall.
C11_ReportCountsItems ==
    LET n == Len(submitted)
    IN /\ ProcessingReport.sensor = Len(KindHistory("Sensor", n))
       /\ ProcessingReport.transaction = Len(KindHistory("Transaction", n))
       /\ ProcessingReport.event = Len(KindHistory("Event", n))
       /\ ProcessingReport.total =
            Len(KindHistory("Sensor", n)) + Len(KindHistory("Transaction", n))
            + Len(KindHistory("Event", n))

\* the accumulated items of the first n streams that pass a test
RECURSIVE PassingItems(_, _, _)
PassingItems(streams, Test(_), n) ==
    IF n = 0 THEN 0
    ELSE PassingItems(streams, Test, n - 1)
         + Len(SelectSeq(streams[n].processed_data, Test))

CriticalReading(r) ==
    \/ "temp" \in DOMAIN r.d /\ (Tenths(r.d.temp) < 0 \/ Tenths(r.d.temp) > 350)
    \/ "humidity" \in DOMAIN r.d /\ Tenths(r.d.humidity) > 800
    \/ "pressure" \in DOMAIN r.d
       /\ (Tenths(r.d.pressure) < 9800 \/ Tenths(r.d.pressure) > 10200)
    \/ "entropy" \in DOMAIN r.d /\ Tenths(r.d.entropy) > 40

LargeAmount(x) == x.t = "int" /\ (x.v > 1000 \/ x.v < -1000)

\* "error" in any mix of cases
ErrorText(x) ==
    \E i \in 1..(Len(x.s) - 4) :
        /\ x.s[i] \in {"e", "E"}
        /\ x.s[i + 1] \in {"r", "R"}
        /\ x.s[i + 2] \in {"r", "R"}
        /\ x.s[i + 3] \in {"o", "O"}
        /\ x.s[i + 4] \in {"r", "R"}

\* C12: the filtered-results summary reports for each kind the number of
\* accumulated items that pass the kind's filter: critical readings,
\* transactions with abs(value) > 1000, events containing "error" in any
\* case.
C12_FilteredCountsItems ==
    /\ FilteredResults.sensor_alerts =
         PassingItems(sensor_streams, CriticalReading, Len(sensor_streams))
    /\ FilteredResults.large_transactions =
         PassingItems(transaction_streams, LargeAmount,
                      Len(transaction_streams))
    /\ FilteredResults.error_events =
         PassingItems(event_streams, ErrorText, Len(event_streams))

\* a batch that fits none of the three shapes
FitsNoShape(b) == KindIntegersOnly(b) = "Unknown"

\* C14: a batch classified as Unknown is rejected without effect: no Stream
\* is created, no Stream's processed_data changes, and no per-kind or total
\* count changes.
C14_UnknownHasNoEffect ==
    [][(submitted' # submitted /\ FitsNoShape(submitted'[Len(submitted')]))
       => /\ UNCHANGED <<sensor_streams, transaction_streams, event_streams>>
          /\ ProcessingReport' = ProcessingReport
          /\ ret' = None]_vars

C14_Witness ==
    /\ Len(submitted) = 2
    /\ LastBatch = PyList(<<PyInt(100), TextError>>)
    /\ Len(transaction_streams) = 1
    /\ ProcessingReport.total = 1
    /\ ret = None

----------------------------------------------------------------------------
(* Claims about one stream fed directly (StreamSpec) *)

\* the arithmetic sum of a list of amounts, taken from its head
RECURSIVE TotalOf(_)
TotalOf(xs) ==
    IF xs = <<>> THEN 0
    ELSE (IF Head(xs).t = "bool" THEN (IF Head(xs).b THEN 1 ELSE 0)
          ELSE Head(xs).v)
         + TotalOf(Tail(xs))

\* xs with the items at i and i + 1 exchanged
SwapAt(xs, i) ==
    [k \in 1..Len(xs) |->
        IF k = i THEN xs[i + 1] ELSE IF k = i + 1 THEN xs[i] ELSE xs[k]]

Reversed(xs) == [k \in 1..Len(xs) |-> xs[Len(xs) + 1 - k]]

\* C15: netflow() is the arithmetic sum of every integer the stream has
\* ingested, is the same for every ordering of those integers, and carries
\* a leading '+' exactly when the sum is greater than or equal to 0.
C15_NetflowIsSignedSum ==
    LET stream == transaction_streams[1]
        ingested == KindHistory("Transaction", Len(submitted))
        total == TotalOf(ingested)
        text == Netflow(stream)
    IN /\ stream.processed_data = ingested
       /\ text = (IF total >= 0 THEN <<"+">> ELSE <<>>) \o IntChars(total)
       /\ (Head(text) = "+") <=> (total >= 0)
       /\ \A i \in 1..(Len(ingested) - 1) :
            Netflow([stream EXCEPT !.processed_data = SwapAt(@, i)]) = text
       /\ Netflow([stream EXCEPT !.processed_data = Reversed(@)]) = text

C15_Witness ==
    /\ Len(submitted) = 2
    /\ transaction_streams[1].processed_data = <<PyInt(100), PyInt(-100)>>
    /\ Netflow(transaction_streams[1]) = <<"+", "0">>

\* "error" in any mix of cases, read from the end of the line backwards
MentionsError(x) ==
    \E j \in 5..Len(x.s) :
        /\ x.s[j] \in {"r", "R"}
        /\ x.s[j - 1] \in {"o", "O"}
        /\ x.s[j - 2] \in {"r", "R"}
        /\ x.s[j - 3] \in {"r", "R"}
        /\ x.s[j - 4] \in {"e", "E"}

\* C16: errors is exactly the in-order subsequence of processed_data whose
\* lines contain "error" case-insensitively, the same result filter_data
\* gives on processed_data, so the error count never exceeds the event count.
C16_ErrorsAreFilteredEvents ==
    LET stream == event_streams[1]
    IN /\ stream.processed_data = KindHistory("Event", Len(submitted))
       /\ stream.errors = SelectSeq(stream.processed_data, MentionsError)
       /\ stream.errors = EventFilterData(stream.processed_data)
       /\ Len(stream.errors) <= Len(stream.processed_data)

C16_Witness ==
    /\ Len(submitted) = 2
    /\ event_streams[1].processed_data = <<TextLogin, TextError, TextLower>>
    /\ event_streams[1].errors = <<TextError, TextLower>>

CarriesTemp(r) == "temp" \in DOMAIN r.d

\* the temperatures of a list of readings that all carry one, in tenths
RECURSIVE TempTotal(_)
TempTotal(rs) ==
    IF rs = <<>> THEN 0
    ELSE (IF Head(rs).d.temp.t = "float" THEN Head(rs).d.temp.tenths
          ELSE 10 * Head(rs).d.temp.v)
         + TempTotal(Tail(rs))

\* C17: avg_temp() equals the mean of the temp values of the readings in
\* processed_data that carry a temp key, taken over exactly those readings,
\* and equals 0.0 when no ingested reading carries a temp key.
C17_AvgTempIsMeanOfTemps ==
    LET stream == sensor_streams[1]
        rs == SelectSeq(stream.processed_data, CarriesTemp)
        avg == AvgTemp(stream)
    IN /\ avg.den > 0
       /\ IF rs = <<>> THEN avg.num = 0
          ELSE avg.num * 10 * Len(rs) = TempTotal(rs) * avg.den

C17_Witness ==
    /\ Len(submitted) = 2
    /\ sensor_streams[1].processed_data = <<Reading1, Reading2, Reading3>>
    /\ AvgTemp(sensor_streams[1]) = [t |-> "float", num |-> 175, den |-> 20]

====
